---------------------------- MODULE Spec2Model ----------------------------
(***************************************************************************)
(* Phone-number database engine: the in-memory database built from the     *)
(* binary file (records blob + index), the record decoder, the carrier     *)
(* catalog, the lookup strategies (sorted-index binary search, hash table, *)
(* SIMD-friendly binary search, bloom-filter gated binary search) and the  *)
(* cached PhoneData of lib.rs with its mutex-guarded result cache.         *)
(*                                                                         *)
(* Strings are sequences of one-byte characters (phone numbers) or         *)
(* sequences of byte values 0..255 (the records blob and decoded fields).  *)
(***************************************************************************)
EXTENDS Integers, Sequences, FiniteSets, TLC

(***************************************************************************)
(* Bounds of the model.                                                    *)
(***************************************************************************)
\* largest number of index entries of a database
MaxIdx == 3
\* largest configured cache_max_size
MaxCache == 2

\* longest index of the files given to the loaders
MaxFileIdx == 2
\* number of u64 words of the bloom filter's bit array (scaled down)
BloomWords == 1

(***************************************************************************)
(* Results: Result<PhoneNoInfo, ErrorKind>, or a panic of the call.        *)
(***************************************************************************)
NoInfo == [province |-> << >>, city |-> << >>, zip_code |-> << >>,
           area_code |-> << >>, card_type |-> ""]

Ok(info) == [kind |-> "Ok", err |-> "", info |-> info]

Err(e) == [kind |-> "Err", err |-> e, info |-> NoInfo]

\* phone_bloom.rs LookupStats, without its two durations
NoStats == [bloom_positive |-> FALSE, found |-> FALSE]

Panic == [kind |-> "Panic", err |-> "", info |-> NoInfo]

IsOk(r) == r.kind = "Ok"

(***************************************************************************)
(* Carrier catalog (common.rs CardType; lib.rs has an identical copy).     *)
(***************************************************************************)
\* an unknown byte falling back to the first carrier
CardTypeFromU8Default(i) ==
    CASE i = 2 -> Ok([NoInfo EXCEPT !.card_type = "Cucc"])
      [] i = 3 -> Ok([NoInfo EXCEPT !.card_type = "Ctcc"])
      [] i = 4 -> Ok([NoInfo EXCEPT !.card_type = "CtccV"])
      [] i = 5 -> Ok([NoInfo EXCEPT !.card_type = "CuccV"])
      [] i = 6 -> Ok([NoInfo EXCEPT !.card_type = "CmccV"])
      [] i = 7 -> Ok([NoInfo EXCEPT !.card_type = "Cbcc"])
      [] i = 8 -> Ok([NoInfo EXCEPT !.card_type = "CbccV"])
      [] OTHER -> Ok([NoInfo EXCEPT !.card_type = "Cmcc"])

\* CardType::from_u8; the variant is carried in the card_type field
CardTypeFromU8(i) ==
    CASE i = 1 -> Ok([NoInfo EXCEPT !.card_type = "Cmcc"])
      [] i = 2 -> Ok([NoInfo EXCEPT !.card_type = "Cucc"])
      [] i = 3 -> Ok([NoInfo EXCEPT !.card_type = "Ctcc"])
      [] i = 4 -> Ok([NoInfo EXCEPT !.card_type = "CtccV"])
      [] i = 5 -> Ok([NoInfo EXCEPT !.card_type = "CuccV"])
      [] i = 6 -> Ok([NoInfo EXCEPT !.card_type = "CmccV"])
      [] i = 7 -> Ok([NoInfo EXCEPT !.card_type = "Cbcc"])
      [] i = 8 -> Ok([NoInfo EXCEPT !.card_type = "CbccV"])
      [] OTHER -> Err("InvalidOpNo")

GetDescription(ct) ==
    CASE ct = "Cmcc"  -> "China Mobile"
      [] ct = "Cucc"  -> "China Unicom"
      [] ct = "Ctcc"  -> "China Telecom"
      [] ct = "CtccV" -> "China Telecom MVNO"
      [] ct = "CuccV" -> "China Unicom MVNO"
      [] ct = "CmccV" -> "China Mobile MVNO"
      [] ct = "Cbcc"  -> "China Broadnet"
      [] ct = "CbccV" -> "China Broadnet MVNO"

\* common.rs CardType::get_code: `*self as u8`, the variant's discriminant
GetCode(ct) ==
    CASE ct = "Cmcc"  -> 1
      [] ct = "Cucc"  -> 2
      [] ct = "Ctcc"  -> 3
      [] ct = "CtccV" -> 4
      [] ct = "CuccV" -> 5
      [] ct = "CmccV" -> 6
      [] ct = "Cbcc"  -> 7
      [] ct = "CbccV" -> 8

(***************************************************************************)
(* Decimal parsing of the number's leading characters.                     *)
(***************************************************************************)
DigitChars == <<"0", "1", "2", "3", "4", "5", "6", "7", "8", "9">>

IsDigit(c) == \E i \in 1..10 : DigitChars[i] = c

DigitVal(c) == (CHOOSE i \in 1..10 : DigitChars[i] = c) - 1

RECURSIVE DecimalValue(_)
DecimalValue(s) ==
    IF s = << >> THEN 0
    ELSE DecimalValue(SubSeq(s, 1, Len(s) - 1)) * 10 + DigitVal(s[Len(s)])

AllDigits(s) == \A i \in 1..Len(s) : IsDigit(s[i])

\* str::parse::<i32>: an optional leading '+' or '-', then one or more digits.
\* The strings parsed here have 7 characters, so the value fits an i32.
ParseI32(s) ==
    IF s = << >> THEN [ok |-> FALSE, val |-> 0]
    ELSE IF s[1] \in {"+", "-"}
         THEN IF Len(s) > 1 /\ AllDigits(Tail(s))
              THEN [ok |-> TRUE,
                    val |-> IF s[1] = "-" THEN 0 - DecimalValue(Tail(s))
                            ELSE DecimalValue(Tail(s))]
              ELSE [ok |-> FALSE, val |-> 0]
         ELSE IF AllDigits(s) THEN [ok |-> TRUE, val |-> DecimalValue(s)]
              ELSE [ok |-> FALSE, val |-> 0]

\* one character too many taken from a longer number (`no[..8]`)
ParsePrefixEight(no) ==
    IF Len(no) = 7 THEN ParseI32(no) ELSE ParseI32(SubSeq(no, 1, 8))

\* `if len == 7 { no.parse::<i32>() } else { no[..7].parse::<i32>() }`
ParsePrefix(no) ==
    IF Len(no) = 7 THEN ParseI32(no) ELSE ParseI32(SubSeq(no, 1, 7))

\* lib.rs parse_phone_prefix: strict digit loop over the first 7 bytes.
parse_phone_prefix(no) ==
    IF Len(no) < 7 THEN [ok |-> FALSE, val |-> 0, err |-> "InvalidLength"]
    ELSE IF \E i \in 1..7 : ~IsDigit(no[i])
         THEN [ok |-> FALSE, val |-> 0, err |-> "InvalidPhoneDatabase"]
         ELSE [ok |-> TRUE, val |-> DecimalValue(SubSeq(no, 1, 7)), err |-> ""]

(***************************************************************************)
(* Record decoder.  A record is the byte slice from the blob-relative       *)
(* offset up to the first zero byte: UTF-8 text of four '|' separated       *)
(* fields.                                                                  *)
(***************************************************************************)
NUL == 0

PIPE == 124

IsCont(b) == b >= 128 /\ b <= 191

\* std::str::from_utf8 / String::from_utf8: well-formed UTF-8 only (no
\* overlong forms, no surrogates, nothing above U+10FFFF).
RECURSIVE Utf8Valid(_)
Utf8Valid(bs) ==
    IF bs = << >> THEN TRUE
    ELSE LET b == bs[1]
             n == Len(bs)
         IN  CASE b < 128 -> Utf8Valid(Tail(bs))
               [] b >= 194 /\ b <= 223 ->
                    n >= 2 /\ IsCont(bs[2]) /\ Utf8Valid(SubSeq(bs, 3, n))
               [] b >= 224 /\ b <= 239 ->
                    /\ n >= 3
                    /\ IsCont(bs[2]) /\ IsCont(bs[3])
                    /\ (b = 224 => bs[2] >= 160)
                    /\ (b = 237 => bs[2] <= 159)
                    /\ Utf8Valid(SubSeq(bs, 4, n))
               [] b >= 240 /\ b <= 244 ->
                    /\ n >= 4
                    /\ IsCont(bs[2]) /\ IsCont(bs[3]) /\ IsCont(bs[4])
                    /\ (b = 240 => bs[2] >= 144)
                    /\ (b = 244 => bs[2] <= 143)
                    /\ Utf8Valid(SubSeq(bs, 5, n))
               [] OTHER -> FALSE

\* index (1-based) of the first zero byte of bs, 0 when there is none
\* (`iter().position(|&b| b == 0)`)
PositionNul(bs) ==
    IF \E i \in 1..Len(bs) : bs[i] = NUL
    THEN CHOOSE i \in 1..Len(bs) : bs[i] = NUL /\ \A j \in 1..(i - 1) : bs[j] # NUL
    ELSE 0

\* str::split('|'): the fields between separators; "" yields one empty field
RECURSIVE SplitPipe(_)
SplitPipe(bs) ==
    IF \E i \in 1..Len(bs) : bs[i] = PIPE
    THEN LET i == CHOOSE k \in 1..Len(bs) :
                     bs[k] = PIPE /\ \A j \in 1..(k - 1) : bs[j] # PIPE
         IN  <<SubSeq(bs, 1, i - 1)>> \o SplitPipe(SubSeq(bs, i + 1, Len(bs)))
    ELSE <<bs>>

DecOk(parts) == [kind |-> "Ok", err |-> "", parts |-> parts]

DecErr(e) == [kind |-> "Err", err |-> e, parts |-> << >>]

DecPanic == [kind |-> "Panic", err |-> "", parts |-> << >>]

\* a record of more than four fields cut down to its first four
FieldsOfFirstFour(slice) ==
    IF ~Utf8Valid(slice) THEN DecErr("InvalidPhoneDatabase")
    ELSE LET parts == SplitPipe(slice)
         IN  IF Len(parts) < 4 THEN DecErr("InvalidPhoneDatabase")
             ELSE DecOk(SubSeq(parts, 1, 4))

\* the text of a record slice to its four fields (shared tail of every decoder)
FieldsOf(slice) ==
    IF ~Utf8Valid(slice) THEN DecErr("InvalidPhoneDatabase")
    ELSE LET parts == SplitPipe(slice)
         IN  IF Len(parts) # 4 THEN DecErr("InvalidPhoneDatabase")
             ELSE DecOk(parts)

\* `records[offset - 8..]` with offset = records_offset as usize: a negative
\* i32 becomes a huge usize, offset < 8 underflows the subtraction (panic in
\* a checked build, a huge start in an unchecked one), and a start beyond the
\* end of the blob panics in the slice: every such case ends in a panic.
SliceStartPanics(recs, offset) == offset < 8 \/ offset - 8 > Len(recs)

\* the header size taken as 7: the slice starts one byte late
parse_record_data_skewed(recs, offset) ==
    IF offset < 7 \/ offset - 7 > Len(recs) THEN DecPanic
    ELSE LET rest == SubSeq(recs, offset - 7 + 1, Len(recs))
             pos  == PositionNul(rest)
         IN  IF pos = 0 THEN DecErr("InvalidPhoneDatabase")
             ELSE FieldsOf(SubSeq(rest, 1, pos - 1))

\* common.rs utils::parse_record_data (phone_hash.rs and phone_simd.rs carry
\* identical copies as parse_to_record)
parse_record_data(recs, offset) ==
    IF SliceStartPanics(recs, offset) THEN DecPanic
    ELSE LET rest == SubSeq(recs, offset - 8 + 1, Len(recs))
             pos  == PositionNul(rest)
         IN  IF pos = 0 THEN DecErr("InvalidPhoneDatabase")
             ELSE FieldsOf(SubSeq(rest, 1, pos - 1))

\* lib.rs PhoneData::parse_to_record: splitn(2, |i| *i == 0).nth(0) always
\* yields a first piece, the whole rest of the blob when no zero byte follows
parse_to_record(recs, offset) ==
    IF SliceStartPanics(recs, offset) THEN DecPanic
    ELSE LET rest == SubSeq(recs, offset - 8 + 1, Len(recs))
             pos  == PositionNul(rest)
         IN  IF pos = 0 THEN FieldsOf(rest)
             ELSE FieldsOf(SubSeq(rest, 1, pos - 1))

\* the carrier byte taken on trust: an unknown one gives an empty description
BuildInfoUnchecked(dec, card_type) ==
    IF dec.kind = "Panic" THEN Panic
    ELSE IF dec.kind = "Err" THEN Err(dec.err)
    ELSE Ok([province  |-> dec.parts[1],
             city      |-> dec.parts[2],
             zip_code  |-> dec.parts[3],
             area_code |-> dec.parts[4],
             card_type |-> IF IsOk(CardTypeFromU8(card_type))
                           THEN GetDescription(CardTypeFromU8(card_type).info.card_type)
                           ELSE ""])

\* common.rs utils::build_phone_info and the inline copies in every find:
\* decode result, then carrier code, to a PhoneNoInfo
BuildInfo(dec, card_type) ==
    IF dec.kind = "Panic" THEN Panic
    ELSE IF dec.kind = "Err" THEN Err(dec.err)
    ELSE LET ct == CardTypeFromU8(card_type)
         IN  IF ~IsOk(ct) THEN Err(ct.err)
             ELSE Ok([province  |-> dec.parts[1],
                      city      |-> dec.parts[2],
                      zip_code  |-> dec.parts[3],
                      area_code |-> dec.parts[4],
                      card_type |-> GetDescription(ct.info.card_type)])

\* binary_search.rs PhoneData::build_phone_info
build_phone_info(recs, e) ==
    BuildInfo(parse_record_data(recs, e.records_offset), e.card_type)

(***************************************************************************)
(* State.                                                                  *)
(***************************************************************************)
VARIABLES
    file,            \* the bytes of the database file
    loaded,          \* per loader: "none", "ok", "panicked" or the error it returned
    version,         \* the version string of the instances (header bytes 0..4)
    records,         \* the records blob (bytes after the 8-byte header)
    index,           \* Vec<Index>, in file order
    hash_state,      \* outcome of PhoneDataHash::new: "ready", "failed", "panicked"
    phone_map,       \* PhoneDataHash.phone_map: prefix -> decoded record + carrier byte
    bits,            \* BloomFilter.bits, as the set of bit positions that are set
    hasher,          \* which deterministic 64-bit hash function the filter uses
    std_search,      \* which slice::binary_search_by_key the toolchain provides
    cache_enabled,   \* PhoneData.cache_enabled
    cache_max_size,  \* PhoneData.cache_max_size
    cache,           \* PhoneData.cache: number string -> PhoneNoInfo
    out,             \* the sequential caller's current call and its result
    batch,           \* the sequential caller's current find_batch call and its result
    pc,              \* per thread: where its find call on the shared PhoneData is
    arg,             \* per thread: the number it was called with
    found,           \* per thread: the result computed or returned
    lock             \* holder of the cache mutex, or NoThread

dbvars == <<file, loaded, version, records, index, hash_state, phone_map, bits, hasher, std_search,
            cache_enabled, cache_max_size>>

thvars == <<pc, arg, found, lock>>

vars == <<file, loaded, version, records, index, hash_state, phone_map, bits, hasher, std_search,
          cache_enabled, cache_max_size, cache, out, batch, pc, arg, found, lock>>

(***************************************************************************)
(* Index search.                                                           *)
(***************************************************************************)
Entry(p, o, c) == [phone_no_prefix |-> p, records_offset |-> o, card_type |-> c]

\* the loop with the two halves exchanged
RECURSIVE BinarySearchLoopSwapped(_, _, _, _)
BinarySearchLoopSwapped(idx, target, left, right) ==
    IF left < right
    THEN LET mid == left + ((right - left) \div 2)
             key == idx[mid + 1].phone_no_prefix
         IN  IF key < target THEN BinarySearchLoopSwapped(idx, target, left, mid)
             ELSE IF key > target
                  THEN BinarySearchLoopSwapped(idx, target, mid + 1, right)
             ELSE mid + 1
    ELSE 0

\* the hand-written loop of binary_search.rs find, phone_simd.rs
\* simd_binary_search and phone_bloom.rs binary_search; left, right and mid
\* are the code's 0-based positions, the answer is the 1-based position of
\* the match or 0
RECURSIVE BinarySearchLoop(_, _, _, _)
BinarySearchLoop(idx, target, left, right) ==
    IF left < right
    THEN LET mid == left + ((right - left) \div 2)
             key == idx[mid + 1].phone_no_prefix
         IN  IF key > target THEN BinarySearchLoop(idx, target, left, mid)
             ELSE IF key < target THEN BinarySearchLoop(idx, target, mid + 1, right)
             ELSE mid + 1
    ELSE 0

\* one iteration of the hand-written loop: the bounds it ran with, the
\* midpoint it read and the outcome of the comparison; an unchecked read
\* outside the index is recorded and ends the trace
SearchStep(left, mid, right, cmp) ==
    [left |-> left, mid |-> mid, right |-> right, cmp |-> cmp]

\* the midpoint rounded up
RECURSIVE SearchTraceRoundedUp(_, _, _, _)
SearchTraceRoundedUp(idx, target, left, right) ==
    IF left < right
    THEN LET mid == left + ((right - left + 1) \div 2)
         IN  IF mid + 1 \notin DOMAIN idx
             THEN <<SearchStep(left, mid, right, "OutOfRange")>>
             ELSE LET key == idx[mid + 1].phone_no_prefix
                  IN  IF key > target
                      THEN <<SearchStep(left, mid, right, "Greater")>>
                               \o SearchTraceRoundedUp(idx, target, left, mid - 1)
                      ELSE IF key < target
                           THEN <<SearchStep(left, mid, right, "Less")>>
                                    \o SearchTraceRoundedUp(idx, target, mid + 1, right)
                      ELSE <<SearchStep(left, mid, right, "Equal")>>
    ELSE << >>

\* the iterations of the loop of binary_search.rs find, phone_simd.rs
\* simd_binary_search and prefetch_binary_search, and phone_bloom.rs
\* binary_search, in order (prefetch_binary_search also issues a prefetch
\* hint for position mid + 16 when `mid + 16 < self.index.len()`, which
\* reads nothing)
RECURSIVE SearchTrace(_, _, _, _)
SearchTrace(idx, target, left, right) ==
    IF left < right
    THEN LET mid == left + ((right - left) \div 2)
         IN  IF mid + 1 \notin DOMAIN idx
             THEN <<SearchStep(left, mid, right, "OutOfRange")>>
             ELSE LET key == idx[mid + 1].phone_no_prefix
                  IN  IF key > target
                      THEN <<SearchStep(left, mid, right, "Greater")>>
                               \o SearchTrace(idx, target, left, mid)
                      ELSE IF key < target
                           THEN <<SearchStep(left, mid, right, "Less")>>
                                    \o SearchTrace(idx, target, mid + 1, right)
                      ELSE <<SearchStep(left, mid, right, "Equal")>>
    ELSE << >>

\* phone_simd.rs prefetch_binary_search
prefetch_binary_search(idx, target) == BinarySearchLoop(idx, target, 0, Len(idx))

binary_search(idx, target) == BinarySearchLoop(idx, target, 0, Len(idx))

\* slice::binary_search_by_key as the standard library implemented it with an
\* early return on Equal
RECURSIVE StdSearchEarly(_, _, _, _)
StdSearchEarly(idx, target, left, right) ==
    IF left < right
    THEN LET mid == left + ((right - left) \div 2)
             key == idx[mid + 1].phone_no_prefix
         IN  IF key = target THEN mid + 1
             ELSE IF key < target THEN StdSearchEarly(idx, target, mid + 1, right)
             ELSE StdSearchEarly(idx, target, left, mid)
    ELSE 0

\* slice::binary_search_by_key as the standard library implements it without
\* an early return (the base moves while more than one element is left)
RECURSIVE StdSearchBranchless(_, _, _, _)
StdSearchBranchless(idx, target, base, size) ==
    IF size > 1
    THEN LET half == size \div 2
             mid  == base + half
         IN  StdSearchBranchless(idx, target,
                 IF idx[mid + 1].phone_no_prefix > target THEN base ELSE mid,
                 size - half)
    ELSE IF idx[base + 1].phone_no_prefix = target THEN base + 1 ELSE 0

\* `self.index.binary_search_by_key(&no_parsed, |idx| idx.phone_no_prefix)`:
\* which match is reported among equal keys, and what is reported for an
\* unsorted slice, is left open by the library; both shipped algorithms are
\* modelled
binary_search_by_key(impl, idx, target) ==
    IF impl = "early"
    THEN StdSearchEarly(idx, target, 0, Len(idx))
    ELSE IF Len(idx) = 0 THEN 0
         ELSE StdSearchBranchless(idx, target, 0, Len(idx))

(***************************************************************************)
(* Bloom filter (phone_bloom.rs).                                          *)
(***************************************************************************)
\* hash_count of BloomFilter::new(517258, 0.01): bit_count = 2478974 and
\* (bit_count / expected_items) * ln 2 = 3.32.., truncated
HashCount == 3

\* bits.len() * 64
BitCount == BloomWords * 64

\* BloomFilter::hash: DefaultHasher over (item, seed), a fixed deterministic
\* function of its two arguments.  SipHash itself is not computed here: the
\* filter's code relies only on the function being deterministic, and
\* `hasher` selects one of several such functions, some with many collisions.
BloomFilter_hash(item, seed) == (item % hasher) * 7 + seed * 13 + 5

BitIndex(item, i) == BloomFilter_hash(item, i) % BitCount

\* the first hash function left out
BloomFilter_insert_partial(bs, item) ==
    bs \cup {BitIndex(item, i) : i \in 1..(HashCount - 1)}

\* BloomFilter::insert
BloomFilter_insert(bs, item) == bs \cup {BitIndex(item, i) : i \in 0..(HashCount - 1)}

\* the seeds one off from those of insert
BloomFilter_contains_shifted(bs, item) ==
    \A i \in 1..HashCount : BitIndex(item, i) \in bs

\* BloomFilter::contains
BloomFilter_contains(bs, item) == \A i \in 0..(HashCount - 1) : BitIndex(item, i) \in bs

\* the filter after the index loop of PhoneDataBloom::new
RECURSIVE BloomBuild(_, _)
BloomBuild(idx, n) ==
    IF n = 0 THEN {}
    ELSE BloomFilter_insert(BloomBuild(idx, n - 1), idx[n].phone_no_prefix)

(***************************************************************************)
(* Hash table construction (phone_hash.rs PhoneDataHash::new).             *)
(***************************************************************************)
MapInsert(m, k, v) == [x \in DOMAIN m \cup {k} |-> IF x = k THEN v ELSE m[x]]

\* the index loop: every entry's record is decoded eagerly; a decode error
\* ends construction with that error, a panic ends it with a panic, and a
\* later entry with the same prefix replaces the earlier one
RECURSIVE HashBuild(_, _, _)
HashBuild(recs, idx, n) ==
    IF n = 0 THEN [state |-> "ready", map |-> << >>]
    ELSE LET before == HashBuild(recs, idx, n - 1)
             dec    == parse_record_data(recs, idx[n].records_offset)
         IN  IF before.state # "ready" THEN before
             ELSE IF dec.kind = "Panic" THEN [state |-> "panicked", map |-> << >>]
             ELSE IF dec.kind = "Err" THEN [state |-> "failed", map |-> << >>]
             ELSE [state |-> "ready",
                   map |-> MapInsert(before.map, idx[n].phone_no_prefix,
                                     [parts |-> dec.parts,
                                      card_type |-> idx[n].card_type])]

(***************************************************************************)
(* Loading a database file.  Every loader (lib.rs from_file_with_config,   *)
(* binary_search.rs, phone_hash.rs, phone_simd.rs and phone_bloom.rs new)  *)
(* reads the file the same way: 8 header bytes, the records blob up to     *)
(* index_offset, then 9-byte index chunks until the end of the file.       *)
(***************************************************************************)
\* i32::from_le_bytes on the first four bytes of b
from_le_bytes(b) ==
    LET low == b[1] + 256 * b[2] + 65536 * b[3] + 16777216 * (b[4] % 128)
    IN  IF b[4] >= 128 THEN low - 2147483647 - 1 ELSE low

\* common.rs utils::four_u8_to_i32 (the copies in lib.rs, phone_hash.rs and
\* phone_simd.rs agree with it on the slices of 4 and 5 bytes they are given)
four_u8_to_i32(b) == IF Len(b) < 4 THEN 0 ELSE from_le_bytes(b)

\* one 9-byte chunk to its Index entry
ChunkEntry(chunk) ==
    Entry(four_u8_to_i32(SubSeq(chunk, 1, 4)),
          four_u8_to_i32(SubSeq(chunk, 5, 8)),
          chunk[9])

\* a short last chunk, padded with zero bytes, taken as an entry too
RECURSIVE ReadIndexPadded(_, _)
ReadIndexPadded(f, pos) ==
    IF pos >= Len(f) THEN << >>
    ELSE <<ChunkEntry([k \in 1..9 |-> IF pos + k <= Len(f) THEN f[pos + k] ELSE 0])>>
             \o ReadIndexPadded(f, pos + 9)

\* the index loop: read_exact of 9 bytes from position pos on; the first
\* chunk the file cannot fill ends the loop (UnexpectedEof => break)
RECURSIVE ReadIndex(_, _)
ReadIndex(f, pos) ==
    IF pos + 9 > Len(f) THEN << >>
    ELSE <<ChunkEntry(SubSeq(f, pos + 1, pos + 9))>> \o ReadIndex(f, pos + 9)

LoadOk(ver, recs, idx) ==
    [state |-> "ok", cause |-> "", version |-> ver, records |-> recs, index |-> idx]

LoadFailed(cause) ==
    [state |-> "failed", cause |-> cause, version |-> << >>, records |-> << >>,
     index |-> << >>]

LoadPanicked ==
    [state |-> "panicked", cause |-> "", version |-> << >>, records |-> << >>,
     index |-> << >>]

\* header, records blob and index of a file.  `index_offset as u64` sign-
\* extends a negative i32 and `index_offset as usize - 8` underflows below 8
\* (a panic in a checked build, a wrapped size otherwise): either way the
\* size handed to vec! exceeds isize::MAX or the subtraction panics, so the
\* call ends in a panic.
ParseFile(f) ==
    IF Len(f) < 8 THEN LoadFailed("UnexpectedEof")
    ELSE IF ~Utf8Valid(SubSeq(f, 1, 4)) THEN LoadFailed("FromUtf8Error")
    ELSE LET index_offset == four_u8_to_i32(SubSeq(f, 5, 8))
         IN  IF index_offset < 8 THEN LoadPanicked
             ELSE IF Len(f) < index_offset THEN LoadFailed("UnexpectedEof")
             ELSE LoadOk(SubSeq(f, 1, 4), SubSeq(f, 9, index_offset),
                         ReadIndex(f, index_offset))

Loaders == {"lib", "binary", "hash", "simd", "bloom"}

\* what the caller of a loader gets: "ok" with an instance, "panicked", or
\* the error.  lib.rs maps every read and UTF-8 error to InvalidPhoneDatabase;
\* the other loaders pass the io::Error or FromUtf8Error on with `?`;
\* PhoneDataHash::new also decodes every entry's record.
LoadResult(l, f) ==
    LET parsed == ParseFile(f)
    IN  IF parsed.state = "panicked" THEN "panicked"
        ELSE IF parsed.state = "failed"
             THEN IF l = "lib" THEN "InvalidPhoneDatabase" ELSE parsed.cause
        ELSE IF l = "hash"
             THEN LET built == HashBuild(parsed.records, parsed.index,
                                         Len(parsed.index))
                  IN  IF built.state = "ready" THEN "ok"
                      ELSE IF built.state = "panicked" THEN "panicked"
                      ELSE "InvalidPhoneDatabase"
        ELSE "ok"

(***************************************************************************)
(* The find operations.                                                    *)
(***************************************************************************)
\* the upper limit off by one
LengthOkUpTo12(no) == Len(no) >= 7 /\ Len(no) <= 12

LengthOk(no) == Len(no) >= 7 /\ Len(no) <= 11

\* binary_search.rs: impl PhoneLookup for PhoneData, find
PhoneData_find(no) ==
    IF ~LengthOk(no) THEN Err("InvalidLength")
    ELSE LET p == ParsePrefix(no)
         IN  IF ~p.ok THEN Err("ParseIntError")
             ELSE LET pos == binary_search(index, p.val)
                  IN  IF pos = 0 THEN Err("NotFound")
                      ELSE build_phone_info(records, index[pos])

\* the search started with right = len - 1, losing the last entry
simd_binary_search_short(idx, target) ==
    IF Len(idx) = 0 THEN 0 ELSE BinarySearchLoop(idx, target, 0, Len(idx) - 1)

\* phone_simd.rs simd_binary_search
simd_binary_search(idx, target) == BinarySearchLoop(idx, target, 0, Len(idx))

\* phone_simd.rs: PhoneDataSimd::find
PhoneDataSimd_find(no) ==
    IF ~LengthOk(no) THEN Err("InvalidLength")
    ELSE LET p == ParsePrefix(no)
         IN  IF ~p.ok THEN Err("ParseIntError")
             ELSE LET pos == simd_binary_search(index, p.val)
                  IN  IF pos = 0 THEN Err("NotFound")
                      ELSE BuildInfo(parse_record_data(records, index[pos].records_offset),
                                     index[pos].card_type)

\* the lower limit of the length check left out
PhoneDataHash_find_no_minimum(no) ==
    IF Len(no) > 11 THEN Err("InvalidLength")
    ELSE LET p == IF Len(no) <= 7 THEN ParseI32(no) ELSE ParseI32(SubSeq(no, 1, 7))
         IN  IF ~p.ok THEN Err("ParseIntError")
             ELSE IF p.val \notin DOMAIN phone_map THEN Err("NotFound")
             ELSE BuildInfo(DecOk(phone_map[p.val].parts), phone_map[p.val].card_type)

\* phone_hash.rs: PhoneDataHash::find (of an instance that was constructed)
PhoneDataHash_find(no) ==
    IF ~LengthOk(no) THEN Err("InvalidLength")
    ELSE LET p == ParsePrefix(no)
         IN  IF ~p.ok THEN Err("ParseIntError")
             ELSE IF p.val \notin DOMAIN phone_map THEN Err("NotFound")
             ELSE BuildInfo(DecOk(phone_map[p.val].parts), phone_map[p.val].card_type)

\* phone_bloom.rs: does find reach the binary search for this number
BloomSearches(no) ==
    LengthOk(no) /\ ParsePrefix(no).ok /\ BloomFilter_contains(bits, ParsePrefix(no).val)

\* phone_bloom.rs: PhoneDataBloom::find
PhoneDataBloom_find(no) ==
    IF ~LengthOk(no) THEN Err("InvalidLength")
    ELSE LET p == ParsePrefix(no)
         IN  IF ~p.ok THEN Err("ParseIntError")
             ELSE IF ~BloomFilter_contains(bits, p.val) THEN Err("NotFound")
             ELSE LET pos == binary_search(index, p.val)
                  IN  IF pos = 0 THEN Err("NotFound")
                      ELSE BuildInfo(parse_record_data(records, index[pos].records_offset),
                                     index[pos].card_type)

\* phone_bloom.rs PhoneDataBloom::find_with_stats: the result and the
\* LookupStats (durations left out).  The prefix is parsed with
\* `unwrap_or(0)`, the record and the carrier are taken with `unwrap()`, so
\* a decode error or an unknown carrier byte panics and nothing is returned.
PhoneDataBloom_find_with_stats(no) ==
    IF ~LengthOk(no)
    THEN [res |-> Err("InvalidLength"),
          stats |-> [bloom_positive |-> FALSE, found |-> FALSE]]
    ELSE LET phone_prefix == IF ParsePrefix(no).ok THEN ParsePrefix(no).val ELSE 0
             pos == binary_search(index, phone_prefix)
         IN  IF ~BloomFilter_contains(bits, phone_prefix)
             THEN [res |-> Err("NotFound"),
                   stats |-> [bloom_positive |-> FALSE, found |-> FALSE]]
             ELSE IF pos = 0
             THEN [res |-> Err("NotFound"),
                   stats |-> [bloom_positive |-> TRUE, found |-> FALSE]]
             ELSE IF parse_record_data(records, index[pos].records_offset).kind # "Ok"
                       \/ ~IsOk(CardTypeFromU8(index[pos].card_type))
             THEN [res |-> Panic, stats |-> NoStats]
             ELSE [res |-> BuildInfo(parse_record_data(records,
                                         index[pos].records_offset),
                                     index[pos].card_type),
                   stats |-> [bloom_positive |-> TRUE, found |-> TRUE]]

\* Vec<Result<PhoneNoInfo>> collected from the per-number results; a panic
\* while one number is looked up unwinds out of find_batch, which then
\* returns nothing
Collected(items) ==
    IF \E i \in 1..Len(items) : items[i].kind = "Panic"
    THEN [kind |-> "Panic", items |-> << >>]
    ELSE [kind |-> "Returned", items |-> items]

\* common.rs PhoneLookup::find_batch, the default used by binary_search.rs
\* PhoneData: `phones.iter().map(|phone| self.find(phone)).collect()`
PhoneData_find_batch(nos) ==
    Collected([i \in 1..Len(nos) |-> PhoneData_find(nos[i])])

\* the same default for PhoneDataHash; its find is the trait impl of
\* phone_hash.rs, a copy of the inherent find
PhoneDataHash_find_batch(nos) ==
    Collected([i \in 1..Len(nos) |-> PhoneDataHash_find(nos[i])])

\* phone_simd.rs PhoneDataSimd::find_batch
PhoneDataSimd_find_batch(nos) ==
    Collected([i \in 1..Len(nos) |-> PhoneDataSimd_find(nos[i])])

\* the closure of phone_bloom.rs PhoneDataBloom::find_batch, run per number
BloomBatchItem(phone) ==
    IF Len(phone) < 7 \/ Len(phone) > 11 THEN Err("InvalidLength")
    ELSE LET p == ParsePrefix(phone)
         IN  IF ~p.ok THEN Err("ParseIntError")
             ELSE IF ~BloomFilter_contains(bits, p.val) THEN Err("NotFound")
             ELSE LET pos == binary_search(index, p.val)
                  IN  IF pos = 0 THEN Err("NotFound")
                      ELSE BuildInfo(parse_record_data(records, index[pos].records_offset),
                                     index[pos].card_type)

\* the batch ending at the first number that fails
PhoneDataBloom_find_batch_short(nos) ==
    LET items == [i \in 1..Len(nos) |-> BloomBatchItem(nos[i])]
        ok    == {n \in 0..Len(nos) : \A i \in 1..n : IsOk(items[i])}
        upto  == CHOOSE n \in ok : \A m \in ok : m <= n
    IN  Collected(SubSeq(items, 1, IF upto < Len(nos) THEN upto + 1 ELSE upto))

\* phone_bloom.rs PhoneDataBloom::find_batch
PhoneDataBloom_find_batch(nos) ==
    Collected([i \in 1..Len(nos) |-> BloomBatchItem(nos[i])])

\* lib.rs PhoneData::find after a cache miss: prefix, search, decode, carrier
Lookup(no) ==
    LET p == parse_phone_prefix(no)
    IN  IF ~p.ok THEN Err(p.err)
        ELSE LET pos == binary_search_by_key(std_search, index, p.val)
             IN  IF pos = 0 THEN Err("NotFound")
                 ELSE BuildInfo(parse_to_record(records, index[pos].records_offset),
                                index[pos].card_type)

\* lib.rs PhoneData::find: the cache is keyed by the number as given
\* (`cache.get(no)`, `cache.insert(no.to_string(), ..)`)
CacheKeyShort(no) == SubSeq(no, 1, 6)

CacheKey(no) == no

\* lib.rs PhoneData::find, the cache read: `cache.get(no)`
CacheHit(c, no) == cache_enabled /\ CacheKey(no) \in DOMAIN c

\* every outcome of the search reaches the insert
ShouldStoreAlways(r) == cache_enabled

\* the insert reached also when the cache is disabled
ShouldStoreUnconditional(r) == IsOk(r)

\* lib.rs PhoneData::find: only the Ok arm of the search reaches the insert
ShouldStore(r) == IsOk(r) /\ cache_enabled

\* the size test admitting one entry more
CacheStoreInclusive(c, no, info) ==
    IF Cardinality(DOMAIN c) <= cache_max_size THEN MapInsert(c, CacheKey(no), info)
    ELSE c

\* a full cache making room by dropping an entry
CacheStoreEvict(c, no, info) ==
    IF Cardinality(DOMAIN c) < cache_max_size \/ DOMAIN c = {}
    THEN MapInsert(c, CacheKey(no), info)
    ELSE LET victim == CHOOSE k \in DOMAIN c : TRUE
         IN  MapInsert([k \in DOMAIN c \ {victim} |-> c[k]], CacheKey(no), info)

\* a second insert under a key wiping the record stored there
CacheStoreStale(c, no, info) ==
    IF Cardinality(DOMAIN c) < cache_max_size
    THEN MapInsert(c, CacheKey(no), IF CacheKey(no) \in DOMAIN c THEN NoInfo ELSE info)
    ELSE c

\* lib.rs PhoneData::find, the cache write:
\* `if cache.len() < self.cache_max_size { cache.insert(no.to_string(), result.clone()) }`
CacheStore(c, no, info) ==
    IF Cardinality(DOMAIN c) < cache_max_size THEN MapInsert(c, CacheKey(no), info)
    ELSE c

\* lib.rs PhoneData::find as one uninterrupted call: its result and the cache
\* it leaves
CachedFind(c, no) ==
    IF ~LengthOk(no) THEN [res |-> Err("InvalidLength"), hit |-> FALSE, cache |-> c]
    ELSE IF CacheHit(c, no) THEN [res |-> Ok(c[CacheKey(no)]), hit |-> TRUE, cache |-> c]
    ELSE LET r == Lookup(no)
         IN  [res |-> r, hit |-> FALSE,
              cache |-> IF ShouldStore(r) THEN CacheStore(c, no, r.info) ELSE c]

(***************************************************************************)
(* Databases and inputs the model draws from.                              *)
(***************************************************************************)
\* "A|B|C|D" NUL  "E|F||H" NUL  "A|B|C" NUL  "A|B|C|D|E" NUL: records at file
\* offsets 8, 16, 23 and 29, the third with three fields and the last with
\* five
BlobTerminated ==
    <<65, 124, 66, 124, 67, 124, 68, 0,
      69, 124, 70, 124, 124, 72, 0,
      65, 124, 66, 124, 67, 0,
      65, 124, 66, 124, 67, 124, 68, 124, 69, 0>>

\* a three-byte UTF-8 character then "|||D" NUL at offset 8; a record starting
\* with the byte 255 (not UTF-8) at offset 16; "A|B|C|D" at offset 23 running
\* to the end of the blob without a terminator
BlobUnterminated ==
    <<229, 185, 191, 124, 124, 124, 68, 0,
      255, 124, 66, 124, 124, 68, 0,
      65, 124, 66, 124, 67, 124, 68>>

Blobs == {BlobTerminated, BlobUnterminated}

\* index entries: three ascending prefixes, two more entries for 1300001, a
\* carrier byte outside 1..8, an offset below the header size, and the prefix
\* that "+130000" parses to
Entries ==
    { Entry(1300000, 8, 1), Entry(1300001, 16, 2), Entry(1300002, 8, 9),
      Entry(1300001, 23, 3), Entry(1300001, 8, 4), Entry(1300003, 3, 1),
      Entry(130000, 8, 8) }

IndexSeqs(n) == UNION { [1..k -> Entries] : k \in 0..n }

HasherKeys == {3, 64}

\* "2301", the four version bytes of the header
Version == <<50, 51, 48, 49>>

\* the four little-endian bytes of a 32-bit integer
LeBytes(n) ==
    LET low == IF n < 0 THEN n + 2147483647 + 1 ELSE n
    IN  <<low % 256, (low \div 256) % 256, (low \div 65536) % 256,
          (low \div 16777216) + (IF n < 0 THEN 128 ELSE 0)>>

RECURSIVE IndexBytes(_)
IndexBytes(idx) ==
    IF idx = << >> THEN << >>
    ELSE LeBytes(Head(idx).phone_no_prefix) \o LeBytes(Head(idx).records_offset)
             \o <<Head(idx).card_type>> \o IndexBytes(Tail(idx))

\* a well-formed file: version, index_offset, records blob, index
FileOf(ver, recs, idx) == ver \o LeBytes(8 + Len(recs)) \o recs \o IndexBytes(idx)

\* files for the loaders: well-formed ones, with and without a few bytes
\* after the last whole chunk; then an empty file, one cut inside the header,
\* one whose version bytes are not UTF-8, one cut inside the records blob,
\* one cut right after the header, and index_offset values 0, 7 and -1
Files ==
    { FileOf(Version, recs, idx) \o tail :
          recs \in Blobs, idx \in IndexSeqs(MaxFileIdx),
          tail \in {<< >>, <<32, 214, 19>>} }
    \cup { << >>,
           SubSeq(FileOf(Version, BlobTerminated, << >>), 1, 5),
           FileOf(<<255, 51, 48, 49>>, BlobTerminated, <<Entry(1300000, 8, 1)>>),
           SubSeq(FileOf(Version, BlobTerminated, << >>), 1, 20),
           SubSeq(FileOf(Version, BlobTerminated, << >>), 1, 8),
           Version \o LeBytes(0) \o BlobTerminated,
           Version \o LeBytes(7) \o BlobTerminated,
           Version \o LeBytes(0 - 1) \o BlobTerminated }

StdImpls == {"early", "branchless"}

Heads ==
    { <<"1", "3", "0", "0", "0", "0", "0">>,
      <<"1", "3", "0", "0", "0", "0", "1">>,
      <<"1", "3", "0", "0", "0", "0", "2">>,
      <<"1", "3", "0", "0", "0", "0", "3">>,
      <<"1", "3", "0", "0", "0", "0", "x">>,
      <<"+", "1", "3", "0", "0", "0", "0">> }

Tails == { << >>, <<"5">>, <<"5", "5", "5", "5">> }

\* numbers of 7, 8 and 11 characters, and of 0, 6 and 12 characters
Inputs ==
    { h \o t : h \in Heads, t \in Tails }
        \cup { << >>,
               <<"1", "3", "0", "0", "0", "0">>,
               <<"1", "3", "0", "0", "0", "0", "0", "5", "5", "5", "5", "5">> }

Threads == {"t1", "t2"}

NoThread == "none"


\* hit: the result came from the cache; searched: the bloom strategy went on
\* to the binary search; stats: the LookupStats of find_with_stats
NoCall == [impl |-> "none", no |-> << >>, res |-> Err(""),
           hit |-> FALSE, searched |-> FALSE, stats |-> NoStats]

\* longest list of numbers given to find_batch
MaxBatch == 2

\* numbers for find_batch: two that may be found, one whose entry may be
\* damaged, one with a non-digit, one too short, one with a sign
BatchInputs ==
    { <<"1", "3", "0", "0", "0", "0", "0">>,
      <<"1", "3", "0", "0", "0", "0", "1", "5", "5", "5", "5">>,
      <<"1", "3", "0", "0", "0", "0", "3">>,
      <<"1", "3", "0", "0", "0", "0", "x">>,
      <<"1", "3", "0", "0", "0", "0">>,
      <<"+", "1", "3", "0", "0", "0", "0">> }

Batches == UNION { [1..n -> BatchInputs] : n \in 0..MaxBatch }

NoBatch == [impl |-> "none", nos |-> << >>, res |-> [kind |-> "none", items |-> << >>]]

(***************************************************************************)
(* Construction: every implementation is loaded from the same file, so all  *)
(* of them hold the same records blob and index.                           *)
(***************************************************************************)
Loaded(recs, idx, hk, impl, enabled, maxsize) ==
    /\ file = FileOf(Version, recs, idx)
    /\ loaded = [l \in Loaders |-> LoadResult(l, FileOf(Version, recs, idx))]
    /\ version = Version
    /\ records = recs
    /\ index = idx
    /\ hash_state = HashBuild(recs, idx, Len(idx)).state
    /\ phone_map = HashBuild(recs, idx, Len(idx)).map
    /\ hasher = hk
    /\ bits = BloomBuild(idx, Len(idx))
    /\ std_search = impl
    /\ cache_enabled = enabled
    /\ cache_max_size = maxsize
    /\ cache = << >>
    /\ out = NoCall
    /\ batch = NoBatch
    /\ pc = [t \in Threads |-> "idle"]
    /\ arg = [t \in Threads |-> << >>]
    /\ found = [t \in Threads |-> Err("")]
    /\ lock = NoThread

\* databases of every shape the loader accepts, the cache disabled
Init ==
    \E recs \in Blobs, idx \in IndexSeqs(MaxIdx), hk \in HasherKeys, impl \in StdImpls :
        Loaded(recs, idx, hk, impl, FALSE, MaxCache)

\* databases for the cached PhoneData: ascending with an invalid carrier byte,
\* a record without terminator, two entries for one prefix, out of order,
\* empty, and records of five fields, of three fields and of bytes that are
\* not UTF-8
CacheDatabases ==
    { [records |-> BlobTerminated,
       index |-> <<Entry(1300000, 8, 1), Entry(1300001, 16, 2), Entry(1300002, 8, 9)>>],
      [records |-> BlobUnterminated,
       index |-> <<Entry(1300000, 8, 1), Entry(1300001, 23, 3)>>],
      [records |-> BlobTerminated,
       index |-> <<Entry(1300001, 16, 2), Entry(1300001, 23, 3), Entry(1300002, 8, 9)>>],
      [records |-> BlobTerminated,
       index |-> <<Entry(1300002, 8, 9), Entry(1300000, 8, 1), Entry(1300003, 3, 1)>>],
      [records |-> BlobTerminated, index |-> << >>],
      [records |-> BlobTerminated,
       index |-> <<Entry(1300000, 29, 1), Entry(1300001, 23, 2), Entry(1300002, 16, 3)>>],
      [records |-> BlobUnterminated,
       index |-> <<Entry(1300000, 16, 1), Entry(1300002, 8, 2)>>] }

InitCache ==
    \E db \in CacheDatabases, hk \in HasherKeys, impl \in StdImpls,
       enabled \in BOOLEAN, maxsize \in 0..MaxCache :
        Loaded(db.records, db.index, hk, impl, enabled, maxsize)

(***************************************************************************)
(* A single caller: one find call at a time, each running to completion.   *)
(***************************************************************************)
Idle == out = NoCall /\ batch = NoBatch /\ \A t \in Threads : pc[t] = "idle"

\* binary_search.rs PhoneData::find
FindBinary(no) ==
    /\ Idle
    /\ loaded["binary"] = "ok"
    /\ out' = [impl |-> "binary", no |-> no, res |-> PhoneData_find(no),
               hit |-> FALSE, searched |-> FALSE, stats |-> NoStats]
    /\ UNCHANGED <<dbvars, cache, batch, thvars>>

\* phone_hash.rs PhoneDataHash::find; there is an instance to call only when
\* PhoneDataHash::new returned one
FindHash(no) ==
    /\ Idle
    /\ loaded["hash"] = "ok"
    /\ hash_state = "ready"
    /\ out' = [impl |-> "hash", no |-> no, res |-> PhoneDataHash_find(no),
               hit |-> FALSE, searched |-> FALSE, stats |-> NoStats]
    /\ UNCHANGED <<dbvars, cache, batch, thvars>>

\* phone_simd.rs PhoneDataSimd::find
FindSimd(no) ==
    /\ Idle
    /\ loaded["simd"] = "ok"
    /\ out' = [impl |-> "simd", no |-> no, res |-> PhoneDataSimd_find(no),
               hit |-> FALSE, searched |-> FALSE, stats |-> NoStats]
    /\ UNCHANGED <<dbvars, cache, batch, thvars>>

\* phone_bloom.rs PhoneDataBloom::find
FindBloom(no) ==
    /\ Idle
    /\ loaded["bloom"] = "ok"
    /\ out' = [impl |-> "bloom", no |-> no, res |-> PhoneDataBloom_find(no),
               hit |-> FALSE, searched |-> BloomSearches(no),
               stats |-> NoStats]
    /\ UNCHANGED <<dbvars, cache, batch, thvars>>

\* lib.rs PhoneData::find
FindCached(no) ==
    /\ Idle
    /\ loaded["lib"] = "ok"
    /\ out' = [impl |-> "lib", no |-> no, res |-> CachedFind(cache, no).res,
               hit |-> CachedFind(cache, no).hit, searched |-> FALSE,
               stats |-> NoStats]
    /\ cache' = CachedFind(cache, no).cache
    /\ UNCHANGED <<dbvars, batch, thvars>>

\* the caller takes the result
Return ==
    /\ out # NoCall \/ batch # NoBatch
    /\ out' = NoCall
    /\ batch' = NoBatch
    /\ UNCHANGED <<dbvars, cache, thvars>>

\* find_batch of the four strategies that have one
FindBatch(impl, nos) ==
    /\ Idle
    /\ loaded[impl] = "ok"
    /\ impl = "hash" => hash_state = "ready"
    /\ batch' = [impl |-> impl, nos |-> nos,
                 res |-> CASE impl = "binary" -> PhoneData_find_batch(nos)
                           [] impl = "hash"   -> PhoneDataHash_find_batch(nos)
                           [] impl = "simd"   -> PhoneDataSimd_find_batch(nos)
                           [] impl = "bloom"  -> PhoneDataBloom_find_batch(nos)]
    /\ UNCHANGED <<dbvars, cache, out, thvars>>

Next ==
    \/ \E no \in Inputs : FindBinary(no)
    \/ \E no \in Inputs : FindHash(no)
    \/ \E no \in Inputs : FindSimd(no)
    \/ \E no \in Inputs : FindBloom(no)
    \/ \E no \in Inputs : FindCached(no)
    \/ Return

Spec == Init /\ [][Next]_vars

SpecCache == InitCache /\ [][Next]_vars

\* the same databases for the batch calls of the four strategies
InitBatch ==
    \E db \in CacheDatabases, hk \in HasherKeys :
        Loaded(db.records, db.index, hk, "early", FALSE, 0)

NextBatch ==
    \/ \E impl \in {"binary", "hash", "simd", "bloom"}, nos \in Batches :
           FindBatch(impl, nos)
    \/ Return

SpecBatch == InitBatch /\ [][NextBatch]_vars

\* PhoneStats::total_entries: `self.index.len()` in binary_search.rs,
\* phone_simd.rs and phone_bloom.rs, `self.phone_map.len()` in phone_hash.rs
total_entries(l) ==
    IF l = "hash" THEN Cardinality(DOMAIN phone_map) ELSE Len(index)

\* single finds and batch calls on one set of instances, the cached
\* PhoneData with its cache enabled or disabled
InitFrame ==
    \E db \in CacheDatabases, enabled \in BOOLEAN :
        Loaded(db.records, db.index, 3, "early", enabled, 1)

NextFrame ==
    \/ \E no \in BatchInputs : FindBinary(no)
    \/ \E no \in BatchInputs : FindHash(no)
    \/ \E no \in BatchInputs : FindSimd(no)
    \/ \E no \in BatchInputs : FindBloom(no)
    \/ \E no \in BatchInputs : FindCached(no)
    \/ \E impl \in {"binary", "hash", "simd", "bloom"}, nos \in Batches :
           FindBatch(impl, nos)
    \/ Return

SpecFrame == InitFrame /\ [][NextFrame]_vars

\* phone_bloom.rs PhoneDataBloom::find_with_stats
FindBloomWithStats(no) ==
    /\ Idle
    /\ loaded["bloom"] = "ok"
    /\ out' = [impl |-> "bloom_stats", no |-> no,
               res |-> PhoneDataBloom_find_with_stats(no).res,
               hit |-> FALSE, searched |-> FALSE,
               stats |-> PhoneDataBloom_find_with_stats(no).stats]
    /\ UNCHANGED <<dbvars, cache, batch, thvars>>

\* the two finds of the bloom strategy on the same instances
NextStats ==
    \/ \E no \in Inputs : FindBloom(no)
    \/ \E no \in Inputs : FindBloomWithStats(no)
    \/ Return

SpecStats == InitBatch /\ [][NextStats]_vars

(***************************************************************************)
(* Construction from a file: each loader is called once on the same file.  *)
(***************************************************************************)
InitLoad ==
    \E f \in Files :
        /\ file = f
        /\ loaded = [l \in Loaders |-> "none"]
        /\ version = << >>
        /\ records = << >>
        /\ index = << >>
        /\ hash_state = "none"
        /\ phone_map = << >>
        /\ hasher = 3
        /\ bits = {}
        /\ std_search = "early"
        /\ cache_enabled = FALSE
        /\ cache_max_size = 0
        /\ cache = << >>
        /\ out = NoCall
        /\ batch = NoBatch
        /\ pc = [t \in Threads |-> "idle"]
        /\ arg = [t \in Threads |-> << >>]
        /\ found = [t \in Threads |-> Err("")]
        /\ lock = NoThread

\* the instance fields every loader fills from the parsed file
Install(parsed) ==
    /\ version' = parsed.version
    /\ records' = parsed.records
    /\ index' = parsed.index

\* lib.rs PhoneData::from_file_with_config(path, enabled, maxsize)
LoadCached(enabled, maxsize) ==
    /\ loaded["lib"] = "none"
    /\ loaded' = [loaded EXCEPT !["lib"] = LoadResult("lib", file)]
    /\ IF LoadResult("lib", file) = "ok"
       THEN /\ Install(ParseFile(file))
            /\ cache_enabled' = enabled
            /\ cache_max_size' = maxsize
       ELSE UNCHANGED <<version, records, index, cache_enabled, cache_max_size>>
    /\ UNCHANGED <<file, hash_state, phone_map, bits, hasher, std_search, cache,
                   out, batch, thvars>>

\* binary_search.rs PhoneData::new, phone_simd.rs PhoneDataSimd::new
LoadIndexed(l) ==
    /\ loaded[l] = "none"
    /\ loaded' = [loaded EXCEPT ![l] = LoadResult(l, file)]
    /\ IF LoadResult(l, file) = "ok"
       THEN Install(ParseFile(file))
       ELSE UNCHANGED <<version, records, index>>
    /\ UNCHANGED <<file, hash_state, phone_map, bits, hasher, std_search,
                   cache_enabled, cache_max_size, cache, out, batch, thvars>>

\* phone_hash.rs PhoneDataHash::new
LoadHash ==
    /\ loaded["hash"] = "none"
    /\ loaded' = [loaded EXCEPT !["hash"] = LoadResult("hash", file)]
    /\ LET parsed == ParseFile(file)
           built  == HashBuild(parsed.records, parsed.index, Len(parsed.index))
       IN  IF parsed.state = "ok"
           THEN /\ hash_state' = built.state
                /\ phone_map' = built.map
                /\ IF built.state = "ready"
                   THEN Install(parsed)
                   ELSE UNCHANGED <<version, records, index>>
           ELSE /\ hash_state' = parsed.state
                /\ UNCHANGED <<phone_map, version, records, index>>
    /\ UNCHANGED <<file, bits, hasher, std_search, cache_enabled, cache_max_size,
                   cache, out, batch, thvars>>

\* phone_bloom.rs PhoneDataBloom::new
LoadBloom ==
    /\ loaded["bloom"] = "none"
    /\ loaded' = [loaded EXCEPT !["bloom"] = LoadResult("bloom", file)]
    /\ IF LoadResult("bloom", file) = "ok"
       THEN /\ Install(ParseFile(file))
            /\ bits' = BloomBuild(ParseFile(file).index, Len(ParseFile(file).index))
       ELSE UNCHANGED <<version, records, index, bits>>
    /\ UNCHANGED <<file, hash_state, phone_map, hasher, std_search, cache_enabled,
                   cache_max_size, cache, out, batch, thvars>>

NextLoad ==
    \/ \E enabled \in BOOLEAN, maxsize \in 0..MaxCache : LoadCached(enabled, maxsize)
    \/ \E l \in {"binary", "simd"} : LoadIndexed(l)
    \/ LoadHash
    \/ LoadBloom

SpecLoad == InitLoad /\ [][NextLoad]_vars

(***************************************************************************)
(* Construction from a file on a device whose reads can fail.  The header  *)
(* and the records blob are read with `?` (map_err in lib.rs), so a failed *)
(* read there ends the load with an error; the index loop matches on the   *)
(* error kind, breaks on UnexpectedEof and does nothing (`_ => ()`) on any *)
(* other kind before it builds and appends an entry from index_item.       *)
(***************************************************************************)
\* latest read of the index loop that a fault is placed at
MaxFaultAt == 3

\* a fault: the at-th read_exact of the index loop returns an error other
\* than UnexpectedEof, having copied `copied` bytes into index_item and
\* consumed them from the file (the contents of the buffer after a failed
\* read_exact are unspecified); a persistent fault fails every later read too
Faults == [at : 1..MaxFaultAt, copied : {0, 4}, persistent : BOOLEAN]

\* index_item after a failed read: the bytes copied, then what it held before
AfterFailedRead(f, pos, buf, copied) ==
    [k \in 1..9 |-> IF k <= copied /\ pos + k <= Len(f) THEN f[pos + k] ELSE buf[k]]

\* the index loop from its n-th read on, the file position at pos and
\* index_item holding buf, with one transient fault
RECURSIVE ReadIndexFaulty(_, _, _, _, _)
ReadIndexFaulty(f, pos, buf, n, fault) ==
    IF n = fault.at
    THEN <<ChunkEntry(AfterFailedRead(f, pos, buf, fault.copied))>>
             \o ReadIndexFaulty(f, pos + fault.copied,
                                AfterFailedRead(f, pos, buf, fault.copied),
                                n + 1, fault)
    ELSE IF pos + 9 > Len(f) THEN << >>
    ELSE <<ChunkEntry(SubSeq(f, pos + 1, pos + 9))>>
             \o ReadIndexFaulty(f, pos + 9, SubSeq(f, pos + 1, pos + 9), n + 1, fault)

\* number of reads the index loop makes on a file read without faults
ReadsOf(f) == Len(ReadIndex(f, four_u8_to_i32(SubSeq(f, 5, 8)))) + 1

LoadHung ==
    [state |-> "hung", cause |-> "", version |-> << >>, records |-> << >>,
     index |-> << >>]

\* header, records blob and index as read from the faulty device.  With a
\* persistent fault no read ever returns UnexpectedEof, so the loop appends
\* entries without end and the call does not return.
ParseFileFaulty(f, fault) ==
    LET parsed == ParseFile(f)
    IN  IF parsed.state # "ok" THEN parsed
        ELSE IF fault.at > ReadsOf(f) THEN parsed
        ELSE IF fault.persistent THEN LoadHung
        ELSE LoadOk(parsed.version, parsed.records,
                    ReadIndexFaulty(f, four_u8_to_i32(SubSeq(f, 5, 8)),
                                    [k \in 1..9 |-> 0], 1, fault))

\* what the caller of loader l gets from the faulty device
LoadResultFaulty(l, f, fault) ==
    LET parsed == ParseFileFaulty(f, fault)
    IN  IF parsed.state \in {"panicked", "hung"} THEN parsed.state
        ELSE IF parsed.state = "failed"
             THEN IF l = "lib" THEN "InvalidPhoneDatabase" ELSE parsed.cause
        ELSE IF l = "hash"
             THEN LET built == HashBuild(parsed.records, parsed.index,
                                         Len(parsed.index))
                  IN  IF built.state = "ready" THEN "ok"
                      ELSE IF built.state = "panicked" THEN "panicked"
                      ELSE "InvalidPhoneDatabase"
        ELSE "ok"

\* one construction, by any of the loaders, with a fault in the index loop
LoadFaulty(l, fault) ==
    /\ \A m \in Loaders : loaded[m] = "none"
    /\ loaded' = [loaded EXCEPT ![l] = LoadResultFaulty(l, file, fault)]
    /\ LET parsed == ParseFileFaulty(file, fault)
       IN  IF LoadResultFaulty(l, file, fault) = "ok"
           THEN /\ Install(parsed)
                /\ IF l = "hash"
                   THEN /\ hash_state' = "ready"
                        /\ phone_map' = HashBuild(parsed.records, parsed.index,
                                                  Len(parsed.index)).map
                   ELSE UNCHANGED <<hash_state, phone_map>>
                /\ IF l = "bloom"
                   THEN bits' = BloomBuild(parsed.index, Len(parsed.index))
                   ELSE UNCHANGED bits
           ELSE UNCHANGED <<version, records, index, hash_state, phone_map, bits>>
    /\ UNCHANGED <<file, hasher, std_search, cache_enabled, cache_max_size, cache,
                   out, batch, thvars>>

NextLoadFaulty == \E l \in Loaders, fault \in Faults : LoadFaulty(l, fault)

SpecLoadFaulty == InitLoad /\ [][NextLoadFaulty]_vars

(***************************************************************************)
(* Threads sharing one cached PhoneData (lib.rs PhoneData::find).  A call  *)
(* is split where the cache mutex is acquired and released; what runs      *)
(* between touches only the immutable database and the thread's locals.    *)
(***************************************************************************)
ConcDatabases ==
    { [records |-> BlobTerminated,
       index |-> <<Entry(1300000, 8, 1), Entry(1300001, 16, 2), Entry(1300002, 8, 9)>>],
      [records |-> BlobTerminated,
       index |-> <<Entry(1300001, 16, 2), Entry(1300001, 23, 3), Entry(1300003, 3, 1)>>] }

ConcInputs ==
    { <<"1", "3", "0", "0", "0", "0", "0">>,
      <<"1", "3", "0", "0", "0", "0", "0", "5">>,
      <<"1", "3", "0", "0", "0", "0", "1">>,
      <<"1", "3", "0", "0", "0", "0", "2">>,
      <<"1", "3", "0", "0", "0", "0", "3">>,
      <<"1", "3", "0", "0", "0", "0", "x">>,
      <<"1", "3", "0", "0", "0", "0">> }

InitConc ==
    \E db \in ConcDatabases, impl \in StdImpls,
       enabled \in BOOLEAN, maxsize \in 0..MaxCache :
        Loaded(db.records, db.index, 3, impl, enabled, maxsize)

\* lines 179-186: the length check, then towards the cache read or the search
Call(t, no) ==
    /\ out = NoCall
    /\ loaded["lib"] = "ok"
    /\ pc[t] = "idle"
    /\ arg' = [arg EXCEPT ![t] = no]
    /\ IF ~LengthOk(no)
       THEN /\ found' = [found EXCEPT ![t] = Err("InvalidLength")]
            /\ pc' = [pc EXCEPT ![t] = "done"]
       ELSE /\ found' = found
            /\ pc' = [pc EXCEPT ![t] = IF cache_enabled THEN "lock_read" ELSE "search"]
    /\ UNCHANGED <<dbvars, batch, cache, out, lock>>

\* line 187: self.cache.lock() for the read
LockRead(t) ==
    /\ pc[t] = "lock_read"
    /\ lock = NoThread
    /\ lock' = t
    /\ pc' = [pc EXCEPT ![t] = "read"]
    /\ UNCHANGED <<dbvars, batch, cache, out, arg, found>>

\* the guard of the cache read kept across the search on a miss
ReadCacheKeepsGuard(t) ==
    /\ pc[t] = "read"
    /\ lock = t
    /\ IF CacheHit(cache, arg[t])
       THEN /\ found' = [found EXCEPT ![t] = Ok(cache[CacheKey(arg[t])])]
            /\ pc' = [pc EXCEPT ![t] = "done"]
            /\ lock' = NoThread
       ELSE /\ found' = found
            /\ pc' = [pc EXCEPT ![t] = "search"]
            /\ lock' = lock
    /\ UNCHANGED <<dbvars, batch, cache, out, arg>>

\* lines 188-192: cache.get(no); a hit returns the clone; the guard is dropped
ReadCache(t) ==
    /\ pc[t] = "read"
    /\ lock = t
    /\ IF CacheHit(cache, arg[t])
       THEN /\ found' = [found EXCEPT ![t] = Ok(cache[CacheKey(arg[t])])]
            /\ pc' = [pc EXCEPT ![t] = "done"]
       ELSE /\ found' = found
            /\ pc' = [pc EXCEPT ![t] = "search"]
    /\ lock' = NoThread
    /\ UNCHANGED <<dbvars, batch, cache, out, arg>>

\* lines 196-213 and 226: prefix, search, decode, carrier
Search(t) ==
    /\ pc[t] = "search"
    /\ found' = [found EXCEPT ![t] = Lookup(arg[t])]
    /\ pc' = [pc EXCEPT ![t] =
                 IF ShouldStore(Lookup(arg[t])) THEN "lock_write" ELSE "done"]
    /\ UNCHANGED <<dbvars, batch, cache, out, arg, lock>>

\* line 217: self.cache.lock() for the write
LockWrite(t) ==
    /\ pc[t] = "lock_write"
    /\ lock = NoThread
    /\ lock' = t
    /\ pc' = [pc EXCEPT ![t] = "write"]
    /\ UNCHANGED <<dbvars, batch, cache, out, arg, found>>

\* lines 218-224: the bounded insert; the guard is dropped; Ok(result)
WriteCache(t) ==
    /\ pc[t] = "write"
    /\ lock = t
    /\ cache' = CacheStore(cache, arg[t], found[t].info)
    /\ lock' = NoThread
    /\ pc' = [pc EXCEPT ![t] = "done"]
    /\ UNCHANGED <<dbvars, batch, out, arg, found>>

\* the calling thread takes the result
Finish(t) ==
    /\ pc[t] = "done"
    /\ pc' = [pc EXCEPT ![t] = "idle"]
    /\ arg' = [arg EXCEPT ![t] = << >>]
    /\ found' = [found EXCEPT ![t] = Err("")]
    /\ UNCHANGED <<dbvars, batch, cache, out, lock>>

NextConc ==
    \/ \E t \in Threads, no \in ConcInputs : Call(t, no)
    \/ \E t \in Threads : LockRead(t)
    \/ \E t \in Threads : ReadCache(t)
    \/ \E t \in Threads : Search(t)
    \/ \E t \in Threads : LockWrite(t)
    \/ \E t \in Threads : WriteCache(t)
    \/ \E t \in Threads : Finish(t)

SpecConc == InitConc /\ [][NextConc]_vars

\* the call under way in thread t advances: one of LockRead, ReadCache,
\* Search, LockWrite, WriteCache and Finish is taken (each moves pc[t], and a
\* request for the mutex needs it free)
Advance(t) ==
    /\ pc[t] # "idle"
    /\ pc[t] \in {"lock_read", "lock_write"} => lock = NoThread
    /\ \E to \in {"read", "search", "lock_write", "write", "done", "idle"} :
           to # pc[t] /\ pc' = [pc EXCEPT ![t] = to]

\* scheduling: a thread whose call can take a step eventually takes it, and a
\* thread waiting for the cache mutex gets it if the mutex keeps becoming
\* free; callers are not obliged to make calls
FairConc == \A t \in Threads : SF_pc(Advance(t))

SpecConcFair == InitConc /\ [][NextConc]_vars /\ FairConc

(***************************************************************************)
(* Properties.                                                             *)
(***************************************************************************)
StrictlyAscending ==
    \A i \in 1..(Len(index) - 1) :
        index[i].phone_no_prefix < index[i + 1].phone_no_prefix

DecimalNumber(no) == LengthOk(no) /\ \A i \in 1..Len(no) : IsDigit(no[i])

\* positions of the index whose prefix is the value of the number's first 7
\* digits (a linear scan)
Matches(no) ==
    { i \in 1..Len(index) :
        index[i].phone_no_prefix = DecimalValue(SubSeq(no, 1, 7)) }

\* what decoding the entry at position i gives with the decoder of the
\* implementation
Decoded(impl, i) ==
    BuildInfo(IF impl = "lib"
              THEN parse_to_record(records, index[i].records_offset)
              ELSE parse_record_data(records, index[i].records_offset),
              index[i].card_type)

\* C1: over an index ascending by prefix with unique prefixes and for a number
\* of 7 to 11 decimal digits, the sorted-index find (binary_search.rs and
\* lib.rs) answers NotFound exactly when no entry has the value of the first 7
\* digits as its prefix, and otherwise answers what decoding that entry's
\* record and carrier byte gives: the answer of a linear scan.
C1_SortedIndexFind ==
    (out.impl \in {"binary", "lib"} /\ StrictlyAscending /\ DecimalNumber(out.no))
        => /\ (out.res = Err("NotFound")) <=> (Matches(out.no) = {})
           /\ \A i \in Matches(out.no) : out.res = Decoded(out.impl, i)

\* a three-entry ascending index searched for its first entry, found and decoded
C1_Witness ==
    /\ out.impl = "binary"
    /\ StrictlyAscending
    /\ Len(index) = 3
    /\ Len(out.no) = 11
    /\ DecimalNumber(out.no)
    /\ Matches(out.no) = {1}
    /\ IsOk(out.res)

Outcome(impl, no) ==
    CASE impl = "binary" -> PhoneData_find(no)
      [] impl = "hash"   -> PhoneDataHash_find(no)
      [] impl = "simd"   -> PhoneDataSimd_find(no)
      [] impl = "bloom"  -> PhoneDataBloom_find(no)
      [] impl = "lib"    -> CachedFind(cache, no).res

\* C3: for a number n of 8 to 11 characters, find(n) and find(n[0:7]) have the
\* same outcome in every implementation, with the cache enabled or disabled
\* and whichever of the two calls is made first.
\* (The state after a call on n is asked for the outcome of n[0:7], and the
\* state after a call on a 7-character number for the outcome of each longer
\* number that starts with it.)
C3_PrefixEquivalence ==
    /\ (out.impl # "none" /\ Len(out.no) \in 8..11)
           => out.res = Outcome(out.impl, SubSeq(out.no, 1, 7))
    /\ (out.impl # "none" /\ Len(out.no) = 7)
           => \A no \in Inputs :
                  (Len(no) \in 8..11 /\ SubSeq(no, 1, 7) = out.no)
                      => Outcome(out.impl, no) = out.res

\* the 7-character number was looked up first and fills the cache; the
\* 11-character number with the same prefix is then looked up past the cache
C3_Witness ==
    /\ out.impl = "lib"
    /\ Len(out.no) = 11
    /\ IsOk(out.res)
    /\ ~out.hit
    /\ SubSeq(out.no, 1, 7) \in DOMAIN cache
    /\ out.no \notin DOMAIN cache

ValidNumber(no) == DecimalNumber(no)

\* the four strategies agree with a successful answer
AgreeWith(no, res) ==
    /\ PhoneData_find(no) = res
    /\ PhoneDataSimd_find(no) = res
    /\ PhoneDataBloom_find(no) = res
    /\ hash_state = "ready"
    /\ PhoneDataHash_find(no) = res

\* C4 as stated: for the same database file (one from which all four
\* strategies were constructed) and every valid number, whenever one of the
\* sorted-index, hash, SIMD and bloom strategies succeeds, every other one
\* succeeds with the same fields.
C4_AsStated ==
    (out.impl \in {"binary", "hash", "simd", "bloom"}
        /\ ValidNumber(out.no) /\ IsOk(out.res)
        /\ hash_state = "ready")
        => AgreeWith(out.no, out.res)

\* For a database file whose index is ascending by prefix with unique
\* prefixes (and from which all four strategies were constructed), whenever
\* one of the four strategies succeeds on a valid number every other one
\* succeeds with the same fields.
C4_Determinism ==
    (out.impl \in {"binary", "hash", "simd", "bloom"}
        /\ ValidNumber(out.no) /\ IsOk(out.res)
        /\ StrictlyAscending /\ hash_state = "ready")
        => AgreeWith(out.no, out.res)

\* the last entry of a three-entry ascending index found by the sorted-index
\* strategy, the hash table being built
C4_Witness ==
    /\ out.impl = "binary"
    /\ ValidNumber(out.no)
    /\ IsOk(out.res)
    /\ StrictlyAscending
    /\ hash_state = "ready"
    /\ Len(index) = 3
    /\ Matches(out.no) = {3}

(***************************************************************************)
(* C5                                                                      *)
(***************************************************************************)
\* what a cache-disabled PhoneData loaded from the same file returns: the
\* length check, then the search, with no cache in between
Uncached(no) == IF ~LengthOk(no) THEN Err("InvalidLength") ELSE Lookup(no)

\* C5: cache transparency.  After any sequence of find calls on a
\* cache-enabled PhoneData, the call just made returned, and a call on any
\* input would return, exactly the outcome a cache-disabled PhoneData loaded
\* from the same file returns for that input.
C5_CacheTransparency ==
    cache_enabled =>
        /\ out.impl = "lib" => out.res = Uncached(out.no)
        /\ \A no \in Inputs : CachedFind(cache, no).res = Uncached(no)

\* a call answered from the cache with a record
C5_Witness ==
    /\ cache_enabled
    /\ out.impl = "lib"
    /\ out.hit
    /\ IsOk(out.res)

(***************************************************************************)
(* C6                                                                      *)
(***************************************************************************)
\* C6: after any sequence of find calls, sequential or interleaved across
\* threads, the cache never holds more than cache_max_size entries (none at
\* all with cache_max_size = 0), and it is empty whenever cache_enabled is
\* false.
C6_CacheBounded ==
    /\ Cardinality(DOMAIN cache) <= cache_max_size
    /\ ~cache_enabled => cache = << >>

\* the cache is full and a call that found a record returns without its
\* number having been stored
C6_Witness ==
    /\ cache_enabled
    /\ cache_max_size > 0
    /\ Cardinality(DOMAIN cache) = cache_max_size
    /\ \E t \in Threads :
           pc[t] = "done" /\ IsOk(found[t]) /\ CacheKey(arg[t]) \notin DOMAIN cache

(***************************************************************************)
(* C7                                                                      *)
(***************************************************************************)
\* every cached entry is what a successful search of its key returns
CacheHoldsSuccesses ==
    \A k \in DOMAIN cache : IsOk(Uncached(k)) /\ cache[k] = Uncached(k).info

\* only a call whose search succeeded gets to the cache write
WritersSucceeded ==
    \A t \in Threads : pc[t] \in {"lock_write", "write"} => IsOk(found[t])

\* a step that changes the cache is the write of a call that returns Ok
CacheChangedBySuccess ==
    cache' # cache =>
        \E t \in Threads :
            /\ pc[t] = "write" /\ pc'[t] = "done"
            /\ IsOk(found[t]) /\ found'[t] = found[t]
            /\ cache' = MapInsert(cache, CacheKey(arg[t]), found[t].info)

\* C7: failures are never cached.  A find call that returns an error
\* (InvalidLength, non-digit input, NotFound, corrupt record, invalid carrier
\* code) takes no step that changes the cache, and every entry in the cache
\* maps its key to the result a successful find on that key produces.
C7_FailuresNotCached ==
    /\ [](CacheHoldsSuccesses /\ WritersSucceeded)
    /\ [][CacheChangedBySuccess]_vars

\* a call returns an error on a number not in the cache while another
\* number is cached
C7_Witness ==
    /\ cache # << >>
    /\ \E t \in Threads :
           /\ pc[t] = "done"
           /\ found[t].kind = "Err"
           /\ LengthOk(arg[t])
           /\ CacheKey(arg[t]) \notin DOMAIN cache

(***************************************************************************)
(* C8                                                                      *)
(***************************************************************************)
\* no step removes an entry or changes the record under an existing key
EntriesKept ==
    \A k \in DOMAIN cache : k \in DOMAIN cache' /\ cache'[k] = cache[k]

\* a cache holding cache_max_size entries gets no new key
FrozenWhenFull ==
    Cardinality(DOMAIN cache) >= cache_max_size => DOMAIN cache' = DOMAIN cache

\* a cache read of a stored key answers with the stored record
HitsServed ==
    \A t \in Threads :
        (pc[t] = "read" /\ pc'[t] # "read" /\ CacheKey(arg[t]) \in DOMAIN cache)
            => pc'[t] = "done" /\ found'[t] = Ok(cache[CacheKey(arg[t])])

C9_BloomSoundness ==
    /\ \A i \in 1..Len(index) : BloomFilter_contains(bits, index[i].phone_no_prefix)
    /\ (out.impl = "bloom" /\ LengthOk(out.no) /\ ParsePrefix(out.no).ok
            /\ \E i \in 1..Len(index) :
                   index[i].phone_no_prefix = ParsePrefix(out.no).val)
           => out.searched

\* a bloom find of a present prefix returned its record from an index of
\* several distinct prefixes
C9_Witness ==
    /\ out.impl = "bloom"
    /\ IsOk(out.res)
    /\ out.searched
    /\ Cardinality({index[i].phone_no_prefix : i \in 1..Len(index)}) >= 2

(***************************************************************************)
(* C10                                                                     *)
(***************************************************************************)
\* C10: in the bloom find a negative filter answer yields NotFound without
\* a search, a positive answer is resolved by the binary search (NotFound
\* for an absent prefix), and for every input the outcome is that of the
\* sorted-index find on the same index.
C10_BloomRefinesBinary ==
    out.impl = "bloom" =>
        /\ out.res = PhoneData_find(out.no)
        /\ (LengthOk(out.no) /\ ParsePrefix(out.no).ok) =>
               /\ out.searched <=> BloomFilter_contains(bits, ParsePrefix(out.no).val)
               /\ ~out.searched => out.res = Err("NotFound")
               /\ (out.searched /\ binary_search(index, ParsePrefix(out.no).val) = 0)
                      => out.res = Err("NotFound")
               /\ (out.searched /\ binary_search(index, ParsePrefix(out.no).val) # 0)
                      => out.res = build_phone_info(records,
                             index[binary_search(index, ParsePrefix(out.no).val)])

\* a false positive: the filter passed a prefix that no index entry has and
\* the search answered NotFound
C10_Witness ==
    /\ out.impl = "bloom"
    /\ out.searched
    /\ index # << >>
    /\ \A i \in 1..Len(index) : index[i].phone_no_prefix # ParsePrefix(out.no).val
    /\ out.res = Err("NotFound")

(***************************************************************************)
(* C11                                                                     *)
(***************************************************************************)
\* does one of the first 7 characters fail to be a decimal digit
NonDigitPrefix(no) == \E i \in 1..7 : ~IsDigit(no[i])

\* C11: a find on an input of 7 to 11 characters with a non-digit among the
\* first 7 (a leading '+' or '-' included) is rejected with InvalidLength or
\* InvalidFormat in every strategy: it is not looked up in the index and
\* not reported as a database corruption.
C11_NonDigitRejected ==
    (out.impl # "none" /\ LengthOk(out.no) /\ NonDigitPrefix(out.no))
        => out.res \in {Err("InvalidLength"), Err("InvalidFormat")}

(***************************************************************************)
(* C12                                                                     *)
(***************************************************************************)
\* C12: the carrier catalog is a closed 8-entry mapping.  from_u8 succeeds
\* for exactly the bytes 1..8, each with its own description and with
\* get_code giving back the byte; 0 and 9..255 fail with InvalidOpNo; and a
\* find that succeeds carries one of the 8 descriptions, never a default.
C12_ClosedCatalog ==
    /\ \A b \in 0..255 :
           IF b \in 1..8
           THEN /\ IsOk(CardTypeFromU8(b))
                /\ GetCode(CardTypeFromU8(b).info.card_type) = b
                /\ \A a \in 1..8 :
                       a # b => GetDescription(CardTypeFromU8(a).info.card_type)
                                    # GetDescription(CardTypeFromU8(b).info.card_type)
           ELSE CardTypeFromU8(b) = Err("InvalidOpNo")
    /\ (out.impl # "none" /\ IsOk(out.res) /\ StrictlyAscending
            /\ DecimalNumber(out.no))
           => \A i \in Matches(out.no) :
                  /\ index[i].card_type \in 1..8
                  /\ out.res.info.card_type =
                         GetDescription(CardTypeFromU8(index[i].card_type).info.card_type)

\* the sorted-index find refused an entry whose carrier byte is not in 1..8
C12_Witness ==
    /\ out.impl = "binary"
    /\ out.res = Err("InvalidOpNo")
    /\ StrictlyAscending
    /\ DecimalNumber(out.no)
    /\ \E i \in Matches(out.no) : index[i].card_type \notin 1..8

OffsetOutside(offset) == offset < 8 \/ offset - 8 >= Len(records)

\* C14: when the matched index entry's records_offset does not point inside
\* the records blob (below 8, negative, or past the end), find returns the
\* corruption error InvalidPhoneDatabase to the caller; it does not panic.
C14_BadOffsetIsError ==
    (out.impl # "none" /\ StrictlyAscending /\ DecimalNumber(out.no))
        => \A i \in Matches(out.no) :
               OffsetOutside(index[i].records_offset)
                   => out.res = Err("InvalidPhoneDatabase")

(***************************************************************************)
(* C15                                                                     *)
(***************************************************************************)
\* the bytes of the blob from a records_offset inside it to the blob's end
RestOfBlob(offset) == SubSeq(records, offset - 8 + 1, Len(records))

\* C15: the decoder of every strategy takes the bytes from the offset up to
\* the first zero byte as the record, and fails with InvalidPhoneDatabase
\* when no zero byte occurs between the offset and the end of the blob.
C15_TerminatorRequired ==
    (out.impl # "none" /\ StrictlyAscending /\ DecimalNumber(out.no))
        => \A i \in Matches(out.no) :
               (~OffsetOutside(index[i].records_offset)
                    /\ \A k \in 1..Len(RestOfBlob(index[i].records_offset)) :
                           RestOfBlob(index[i].records_offset)[k] # NUL)
                   => out.res = Err("InvalidPhoneDatabase")

(***************************************************************************)
(* C16                                                                     *)
(***************************************************************************)
\* the record slice at a records_offset that has a terminator after it
RecordSlice(offset) ==
    LET rest == RestOfBlob(offset)
        end  == CHOOSE k \in 1..Len(rest) :
                    rest[k] = NUL /\ \A j \in 1..(k - 1) : rest[j] # NUL
    IN  SubSeq(rest, 1, end - 1)

Terminated(offset) ==
    /\ ~OffsetOutside(offset)
    /\ \E k \in 1..Len(RestOfBlob(offset)) : RestOfBlob(offset)[k] = NUL

PipeCount(bs) == Cardinality({k \in 1..Len(bs) : bs[k] = PIPE})

\* four fields without separator that, joined by '|', give the slice
FieldsInOrder(info, slice) ==
    /\ slice = info.province \o <<PIPE>> \o info.city \o <<PIPE>>
                   \o info.zip_code \o <<PIPE>> \o info.area_code
    /\ PipeCount(info.province) = 0 /\ PipeCount(info.city) = 0
    /\ PipeCount(info.zip_code) = 0 /\ PipeCount(info.area_code) = 0

\* C16: a record slice decodes only if it is UTF-8 and splitting it on '|'
\* gives exactly 4 fields, returned in the order province, city, zip code,
\* area code; with 3 or fewer or 5 or more fields, or bytes that are not
\* UTF-8, the find fails with InvalidPhoneDatabase.
C16_FourFields ==
    (out.impl # "none" /\ StrictlyAscending /\ DecimalNumber(out.no))
        => \A i \in Matches(out.no) :
               Terminated(index[i].records_offset)
                   => IF /\ Utf8Valid(RecordSlice(index[i].records_offset))
                         /\ PipeCount(RecordSlice(index[i].records_offset)) = 3
                      THEN index[i].card_type \in 1..8
                               => /\ IsOk(out.res)
                                  /\ FieldsInOrder(out.res.info,
                                         RecordSlice(index[i].records_offset))
                      ELSE out.res = Err("InvalidPhoneDatabase")

\* a record of five fields was refused
C16_Witness ==
    /\ out.impl = "simd"
    /\ out.res = Err("InvalidPhoneDatabase")
    /\ StrictlyAscending
    /\ DecimalNumber(out.no)
    /\ \E i \in Matches(out.no) :
           /\ Terminated(index[i].records_offset)
           /\ Utf8Valid(RecordSlice(index[i].records_offset))
           /\ PipeCount(RecordSlice(index[i].records_offset)) > 3

(***************************************************************************)
(* C17                                                                     *)
(***************************************************************************)
\* the file is too short for the header, has version bytes that are not
\* UTF-8, or has fewer than index_offset - 8 bytes after the header
Damaged(f) ==
    \/ Len(f) < 8
    \/ /\ Len(f) >= 8
       /\ \/ ~Utf8Valid(SubSeq(f, 1, 4))
          \/ Len(f) - 8 < four_u8_to_i32(SubSeq(f, 5, 8)) - 8

\* C17: loading a file with fewer than 8 header bytes, with version bytes
\* that are not UTF-8, or with fewer than index_offset - 8 bytes after the
\* header fails with InvalidPhoneDatabase and returns no instance; every
\* construction yields either a fully built instance or an error.
C17_LoadFailsCorrupt ==
    \A l \in Loaders :
        loaded[l] # "none"
            => /\ Damaged(file) => loaded[l] = "InvalidPhoneDatabase"
               /\ loaded[l] # "panicked"
               /\ loaded[l] = "ok"
                      => /\ version = SubSeq(file, 1, 4)
                         /\ records = SubSeq(file, 9, four_u8_to_i32(SubSeq(file, 5, 8)))

(***************************************************************************)
(* C18                                                                     *)
(***************************************************************************)
\* the bytes of the k-th 9-byte chunk after the records region
Chunk(k) ==
    SubSeq(file, four_u8_to_i32(SubSeq(file, 5, 8)) + 9 * (k - 1) + 1,
                 four_u8_to_i32(SubSeq(file, 5, 8)) + 9 * k)

C20_ConcurrentOutcomes ==
    /\ \A t \in Threads :
           pc[t] \in {"lock_write", "write", "done"} => found[t] = Uncached(arg[t])
    /\ \A t \in Threads :
           (pc[t] = "done" /\ IsOk(found[t]) /\ CacheKey(arg[t]) \in DOMAIN cache)
               => cache[CacheKey(arg[t])] = found[t].info
    /\ \A k \in DOMAIN cache : Ok(cache[k]) = Uncached(k)

\* both threads missed on the same number: one has inserted it and returned,
\* the other holds the lock and is about to insert it again
C20_Witness ==
    /\ cache_enabled
    /\ pc["t1"] = "write"
    /\ pc["t2"] = "done"
    /\ arg["t1"] = arg["t2"]
    /\ IsOk(found["t2"])
    /\ CacheKey(arg["t1"]) \in DOMAIN cache
    /\ Cardinality(DOMAIN cache) < cache_max_size

(***************************************************************************)
(* C21                                                                     *)
(***************************************************************************)
Strategies == {"binary", "hash", "simd", "bloom"}

\* C21: the four strategies loaded from one file report the same
\* total_entries() and the same version(), the version bytes of the file; the
\* hash strategy's count is the number of index entries read from the file.
C21_StatsAgree ==
    /\ \A l \in Strategies, m \in Strategies :
           (loaded[l] = "ok" /\ loaded[m] = "ok")
               => total_entries(l) = total_entries(m)
    /\ \A l \in Strategies : loaded[l] = "ok" => version = SubSeq(file, 1, 4)
    /\ loaded["hash"] = "ok"
           => total_entries("hash")
                  = Len(ReadIndex(file, four_u8_to_i32(SubSeq(file, 5, 8))))

(***************************************************************************)
(* C22                                                                     *)
(***************************************************************************)
\* the number's first 7 characters parse to a prefix that no index entry has
PrefixAbsent(no) ==
    /\ LengthOk(no)
    /\ ParsePrefix(no).ok
    /\ \A i \in 1..Len(index) : index[i].phone_no_prefix # ParsePrefix(no).val

\* the four strategies give the same error for the number
AllFailWith(no, e) ==
    /\ PhoneData_find(no) = Err(e)
    /\ PhoneDataSimd_find(no) = Err(e)
    /\ PhoneDataBloom_find(no) = Err(e)
    /\ hash_state = "ready" => PhoneDataHash_find(no) = Err(e)

RECURSIVE JoinPipe(_)
JoinPipe(parts) ==
    IF Len(parts) = 0 THEN << >>
    ELSE IF Len(parts) = 1 THEN parts[1]
    ELSE parts[1] \o <<PIPE>> \o JoinPipe(Tail(parts))

\* the bytes from the offset up to the first zero byte; where none follows
\* (the one decoder that accepts this is lib.rs parse_to_record), up to the
\* end of the blob
UpToTerminator(offset) ==
    IF Terminated(offset) THEN RecordSlice(offset) ELSE RestOfBlob(offset)

InfoFields(info) == <<info.province, info.city, info.zip_code, info.area_code>>

Iterations == SearchTrace(index, ParsePrefix(out.no).val, 0, Len(index))

\* what the loop returns after these iterations: the position it stopped at
\* on Equal, nothing otherwise
TraceResult(tr) ==
    IF tr # << >> /\ tr[Len(tr)].cmp = "Equal" THEN tr[Len(tr)].mid + 1 ELSE 0

\* C24: in each hand-written binary search every iteration has
\* 0 <= left <= mid < right <= index.len(), so the unchecked read at mid is
\* inside the index, for an empty index and for entries in any order; and
\* right - left shrinks with every iteration, so the loop ends (after at
\* most index.len() iterations).
C24_SearchInRange ==
    (/\ out.impl \in {"binary", "simd", "bloom"}
     /\ LengthOk(out.no) /\ ParsePrefix(out.no).ok
     /\ out.impl = "bloom" => out.searched)
        => /\ \A k \in 1..Len(Iterations) :
                  /\ 0 <= Iterations[k].left
                  /\ Iterations[k].left <= Iterations[k].mid
                  /\ Iterations[k].mid < Iterations[k].right
                  /\ Iterations[k].right <= Len(index)
                  /\ Iterations[k].cmp # "OutOfRange"
           /\ \A k \in 1..(Len(Iterations) - 1) :
                  Iterations[k + 1].right - Iterations[k + 1].left
                      < Iterations[k].right - Iterations[k].left
           /\ Len(Iterations) <= Len(index)
           /\ index = << >> => Iterations = << >>
           /\ TraceResult(Iterations) = binary_search(index, ParsePrefix(out.no).val)
           /\ TraceResult(Iterations) = simd_binary_search(index, ParsePrefix(out.no).val)
           /\ TraceResult(Iterations)
                  = prefetch_binary_search(index, ParsePrefix(out.no).val)

\* a search of three entries that are not in ascending order took two
\* iterations and ended without a match
C24_Witness ==
    /\ out.impl = "simd"
    /\ LengthOk(out.no) /\ ParsePrefix(out.no).ok
    /\ Len(index) = 3
    /\ ~StrictlyAscending
    /\ Len(Iterations) = 2
    /\ Iterations[2].right = Len(index)
    /\ out.res = Err("NotFound")

(***************************************************************************)
(* C25                                                                     *)
(***************************************************************************)
\* the loader returned an error to its caller
LoadError(l) == loaded[l] \notin {"none", "ok", "panicked"}

\* C25: the loader reads header bytes 4..8 as an unsigned little-endian
\* 32-bit integer.  With the top bit set the value is that positive number
\* (2^31 or more, beyond the length of the file, so the load fails with an
\* error), not a sign-extended one; a value below 8 makes the load fail with
\* an error, the subtraction index_offset - 8 not being made to underflow.
C25_UnsignedOffset ==
    \A l \in Loaders :
        (loaded[l] # "none" /\ Len(file) >= 8 /\ Utf8Valid(SubSeq(file, 1, 4)))
            => /\ file[8] >= 128 => LoadError(l)
               /\ (file[8] < 128 /\ four_u8_to_i32(SubSeq(file, 5, 8)) < 8)
                      => LoadError(l)

(***************************************************************************)
(* C26                                                                     *)
(***************************************************************************)
\* the mutex is held exactly by a thread that is at the cache read or at the
\* cache write; a thread parsing, searching or decoding holds nothing
LockScoped ==
    /\ \A t \in Threads : lock = t <=> pc[t] \in {"read", "write"}
    /\ lock # NoThread => lock \in Threads

\* a thread asking for the mutex does not hold it
NoSelfRequest ==
    \A t \in Threads : pc[t] \in {"lock_read", "lock_write"} => lock # t

\* a thread waiting for the mutex waits for a thread whose next step
\* releases it
NoDeadlock ==
    \A t \in Threads :
        (pc[t] \in {"lock_read", "lock_write"} /\ lock # NoThread)
            => /\ ENABLED (ReadCache(lock) \/ WriteCache(lock))
               /\ ~ENABLED (LockRead(t) \/ LockWrite(t))

\* some step is possible whenever a call is under way (a thread at the
\* search can always take it)
SomeStep ==
    (\E t \in Threads : pc[t] # "idle")
        => \E t \in Threads :
               \/ pc[t] = "search"
               \/ ENABLED (LockRead(t) \/ ReadCache(t) \/ LockWrite(t)
                              \/ WriteCache(t) \/ Finish(t))

C27_IndexSorted ==
    \A l \in Loaders :
        loaded[l] = "ok"
            => /\ StrictlyAscending
               /\ \A i \in 1..Len(index) :
                      binary_search(index, index[i].phone_no_prefix) = i
               /\ l = "hash"
                      => /\ Cardinality(DOMAIN phone_map) = Len(index)
                         /\ DOMAIN phone_map
                                = {index[i].phone_no_prefix : i \in 1..Len(index)}

(***************************************************************************)
(* C28                                                                     *)
(***************************************************************************)
\* what a step of a find or find_batch call leaves alone
FrameKept ==
    /\ file' = file
    /\ version' = version
    /\ records' = records
    /\ index' = index
    /\ hash_state' = hash_state /\ phone_map' = phone_map
    /\ bits' = bits /\ hasher' = hasher
    /\ cache_enabled' = cache_enabled /\ cache_max_size' = cache_max_size
    /\ loaded' = loaded
    /\ ~cache_enabled => cache' = cache
    /\ cache' # cache => out'.impl = "lib" /\ IsOk(out'.res)

\* C28: after construction no find or find_batch call changes the version,
\* the records blob, the index, the hash table or the bloom filter bits; a
\* lookup may change only the result cache (and only the cached PhoneData's
\* find does), and with the cache disabled it changes nothing.
C28_Frame == [][FrameKept]_vars

\* a batch call was made on the strategies after the cached PhoneData had
\* stored a record
C28_Witness ==
    /\ cache_enabled
    /\ cache # << >>
    /\ batch.impl = "bloom"
    /\ batch.res.kind = "Returned"
    /\ Len(batch.nos) = 2

(***************************************************************************)
(* C29                                                                     *)
(***************************************************************************)
\* C29: the index loop of every loader appends an entry only for a 9-byte
\* chunk it read completely, and ends for every file: when a read fails with
\* an error other than end-of-file, no entry built from the previous contents
\* of the buffer is appended and the loop does not go on forever, so an
\* instance that is returned holds exactly the entries of the file's whole
\* chunks.
C29_LoopReadsWholeChunks ==
    \A l \in Loaders :
        /\ loaded[l] # "hung"
        /\ loaded[l] = "ok"
               => index = ReadIndex(file, four_u8_to_i32(SubSeq(file, 5, 8)))

(***************************************************************************)
(* C30                                                                     *)
(***************************************************************************)
\* C30: find_with_stats of the bloom strategy returns for every input and
\* database what find returns (an error for a number that is not numeric,
\* not a lookup of prefix 0; an error for a corrupt record or an unknown
\* carrier byte, not a panic), and in its statistics found implies
\* bloom_positive and found is the result being Ok.
C30_StatsRefinesFind ==
    out.impl = "bloom_stats"
        => /\ out.res = PhoneDataBloom_find(out.no)
           /\ out.stats.found => out.stats.bloom_positive
           /\ out.stats.found <=> IsOk(out.res)

=============================================================================
